---- MODULE Spec2Model ----
(***************************************************************************)
(* The Discord gateway session of discord-gateway.ts: one DiscordGateway   *)
(* instance, the WebSocket transports it has created, its heartbeat        *)
(* interval timer and the one-shot delays of its reconnect paths.          *)
(***************************************************************************)
EXTENDS Integers, Sequences, FiniteSets, TLC

\* ---------------------------------------------------------------- bounds
MaxSockets == 2      \* transports one instance creates in a run
MaxPending == 1      \* one-shot delays (setTimeout promises) in flight at once
MaxSeq     == 1      \* inbound sequence numbers are 0..MaxSeq

\* ------------------------------------------------------------- constants
DISPATCH        == 0
HEARTBEAT       == 1
IDENTIFY        == 2
RECONNECT       == 7
INVALID_SESSION == 9
HELLO           == 10
HEARTBEAT_ACK   == 11

MAX_RECONNECT_ATTEMPTS == 5
INTENTS                == 513
INVALID_SESSION_DELAY  == 5000

NULL  == -1          \* JavaScript null
UNDEF == -2          \* JavaScript undefined (a field absent from the frame)

Token      == "token"
Intervals  == {41250, 45000}
SessionIds == {"abc123"}
SeqVals    == {NULL, UNDEF} \cup (0..MaxSeq)
Sockets    == 1..MaxSockets

\* the wire envelope {op, d, s, t}; d is kept as its two fields the code reads
Frames ==
    [op : {HELLO}, s : SeqVals, t : {"null"}, heartbeat_interval : Intervals,
     session_id : {"null"}]
    \cup
    [op : {DISPATCH}, s : SeqVals, t : {"READY"}, heartbeat_interval : {0},
     session_id : SessionIds]
    \cup
    [op : {DISPATCH}, s : SeqVals, t : {"MESSAGE_CREATE"}, heartbeat_interval : {0},
     session_id : {"null"}]
    \cup
    [op : {HEARTBEAT_ACK, INVALID_SESSION, RECONNECT}, s : SeqVals, t : {"null"},
     heartbeat_interval : {0}, session_id : {"null"}]

NoFrame == [op |-> NULL, s |-> NULL, t |-> "null", heartbeat_interval |-> 0,
            session_id |-> "null"]

Min(a, b) == IF a < b THEN a ELSE b

RECURSIVE Pow2(_)
Pow2(n) == IF n = 0 THEN 1 ELSE 2 * Pow2(n - 1)

\* the backoff computed from the counter before its increment
BackoffDelay_BeforeIncrement(attempts) == Min(1000 * Pow2(attempts - 1), 30000)

\* Math.min(1000 * Math.pow(2, this.reconnectAttempts), 30000)
BackoffDelay(attempts) == Min(1000 * Pow2(attempts), 30000)

VARIABLES
    ws,                 \* this.ws: 0 (null) or the transport held
    readyState,         \* readyState of every transport created so far
    sequence,           \* this.sequence
    heartbeatInterval,  \* this.heartbeatInterval: 0 (null) or a timer handle
    timers,             \* the interval timers that are active: [id, period]
    sessionId,          \* this.sessionId
    reconnectAttempts,  \* this.reconnectAttempts
    pending,            \* the handlers suspended in `await setTimeout`: handler -> how many
    orphaned,           \* of those, the delays started before the latest disconnect()
    backoffConnects,    \* connect() calls made by handleReconnect after its delay
    greeted,            \* the transports, not yet closed, whose HELLO has been handled
    sent,               \* frames handed to ws.send() by the latest step
    last                \* the latest step: the handler that ran and what it was given

vars == <<ws, readyState, sequence, heartbeatInterval, timers, sessionId,
          reconnectAttempts, pending, orphaned, backoffConnects, greeted, sent,
          last>>

\* the fields of the gateway and its transports, but for the sequence number,
\* and the delays in flight
Fields ==
    [ws |-> ws, readyState |-> readyState, heartbeatInterval |-> heartbeatInterval,
     timers |-> timers, sessionId |-> sessionId,
     reconnectAttempts |-> reconnectAttempts, pending |-> pending,
     orphaned |-> orphaned]

\* the two handlers that await a one-shot delay and then call connect()
Waiters == {"handleReconnect", "handleInvalidSession"}

InFlight(pend) == pend["handleReconnect"] + pend["handleInvalidSession"]

\* kind: the handler (for an expired delay, the handler that resumes); frame: the
\* frame it was given; delay: the argument of the setTimeout it called (0: none);
\* failed: new WebSocket() threw; pre: the fields when the handler began;
\* seqChanged: the handler altered this.sequence
Record(kind, frame, delay, failed) ==
    last' = [kind |-> kind, frame |-> frame, delay |-> delay, failed |-> failed,
             pre |-> Fields, seqChanged |-> (sequence' # sequence)]

Created == {s \in Sockets : readyState[s] # "NONE"}

\* the readyState values of a transport that has not emitted its close event
Alive == {"CONNECTING", "OPEN", "CLOSING", "CLOSING_UNOPENED"}

Init ==
    /\ ws = 0
    /\ readyState = [s \in Sockets |-> "NONE"]
    /\ sequence = NULL
    /\ heartbeatInterval = 0
    /\ timers = {}
    /\ sessionId = "null"
    /\ reconnectAttempts = 0
    /\ pending = [h \in Waiters |-> 0]
    /\ orphaned = [h \in Waiters |-> 0]
    /\ backoffConnects = 0
    /\ greeted = {}
    /\ sent = <<>>
    /\ last = [kind |-> "init", frame |-> NoFrame, delay |-> 0, failed |-> FALSE,
               pre |-> Fields, seqChanged |-> FALSE]

\* ------------------------------------------------------------ operations

\* what ws.send() is given: the frame and the transport it goes out on
Outbound(sock, op, d, token, intents) ==
    [sock |-> sock, op |-> op, d |-> d, token |-> token, intents |-> intents]

\* clearInterval(handle): the timer behind the handle stops, the handle stays
clearInterval(handle, T) == {x \in T : x.id # handle}

\* if (this.heartbeatInterval) clearInterval(this.heartbeatInterval)
clearHeartbeat(handle, T) == IF handle # 0 THEN clearInterval(handle, T) ELSE T

\* setInterval(): a timer handle that no active timer has
setInterval(T, interval) ==
    LET id == CHOOSE i \in 1..(Cardinality(T) + 1) :
                /\ \A x \in T : x.id # i
                /\ \A j \in 1..(i - 1) : \E x \in T : x.id = j
    IN  [id |-> id, period |-> interval]

\* startHeartbeat without its clearInterval
startHeartbeat_NoClear(handle, T, interval) ==
    LET x == setInterval(T, interval)
    IN  [heartbeatInterval |-> x.id, timers |-> T \cup {x}]

\* startHeartbeat(interval): clear the stored timer, then setInterval
startHeartbeat(handle, T, interval) ==
    LET T1 == clearHeartbeat(handle, T)
        x  == setInterval(T1, interval)
    IN  [heartbeatInterval |-> x.id, timers |-> T1 \cup {x}]

\* identify without its readyState guard
identify_Unguarded(w, rs) ==
    IF w = 0 THEN <<>> ELSE <<Outbound(w, IDENTIFY, NULL, Token, INTENTS)>>

\* identify(): skipped unless the held transport is OPEN
identify(w, rs) ==
    IF w = 0 \/ rs[w] # "OPEN" THEN <<>>
    ELSE <<Outbound(w, IDENTIFY, NULL, Token, INTENTS)>>

\* sendHeartbeat without its readyState guard
sendHeartbeat_Unguarded(w, rs, seq) ==
    IF w = 0 THEN <<>> ELSE <<Outbound(w, HEARTBEAT, seq, "", 0)>>

\* sendHeartbeat(): skipped unless the held transport is OPEN
sendHeartbeat(w, rs, seq) ==
    IF w = 0 \/ rs[w] # "OPEN" THEN <<>>
    ELSE <<Outbound(w, HEARTBEAT, seq, "", 0)>>

\* handlePayload, the sequence update: if (s !== null) this.sequence = s
UpdateSequence(seq, s) == IF s # NULL THEN s ELSE seq

\* handleDispatch taking session_id from every event
handleDispatch_AnyEvent(sid, t, session_id) == session_id

\* handleDispatch(event, data)
handleDispatch(sid, t, session_id) == IF t = "READY" THEN session_id ELSE sid

\* handleReconnect with > for >= in its ceiling test
handleReconnect_OffByOne(attempts, pend) ==
    IF attempts > MAX_RECONNECT_ATTEMPTS
    THEN [reconnectAttempts |-> attempts, pending |-> pend, delay |-> 0]
    ELSE [reconnectAttempts |-> attempts + 1,
          pending |-> [pend EXCEPT !["handleReconnect"] = @ + 1],
          delay |-> BackoffDelay(attempts + 1)]

\* handleReconnect(), up to its await: the counter and the delay it starts
handleReconnect(attempts, pend) ==
    IF attempts >= MAX_RECONNECT_ATTEMPTS
    THEN [reconnectAttempts |-> attempts, pending |-> pend, delay |-> 0]
    ELSE [reconnectAttempts |-> attempts + 1,
          pending |-> [pend EXCEPT !["handleReconnect"] = @ + 1],
          delay |-> BackoffDelay(attempts + 1)]

\* handleInvalidSession going through the backoff counter
handleInvalidSession_Counted(handle, T, pend) ==
    [timers  |-> clearHeartbeat(handle, T),
     pending |-> IF reconnectAttempts >= MAX_RECONNECT_ATTEMPTS THEN pend
                 ELSE [pend EXCEPT !["handleInvalidSession"] = @ + 1],
     delay   |-> IF reconnectAttempts >= MAX_RECONNECT_ATTEMPTS THEN 0
                 ELSE INVALID_SESSION_DELAY]

\* handleInvalidSession(), up to its await
handleInvalidSession(handle, T, pend) ==
    [timers  |-> clearHeartbeat(handle, T),
     pending |-> [pend EXCEPT !["handleInvalidSession"] = @ + 1],
     delay   |-> INVALID_SESSION_DELAY]

\* WebSocket.close() of the ws library: an OPEN transport becomes CLOSING and a
\* CONNECTING one, its handshake aborted, becomes CLOSING without ever having
\* been open (CLOSING_UNOPENED here: it will deliver no frame)
wsClose(rs, w) ==
    CASE rs[w] = "OPEN"       -> [rs EXCEPT ![w] = "CLOSING"]
      [] rs[w] = "CONNECTING" -> [rs EXCEPT ![w] = "CLOSING_UNOPENED"]
      [] OTHER                -> rs

\* a delay may be started only while fewer than MaxPending are in flight
CanDelay(pend) == InFlight(pend) < MaxPending

NextSocket == Cardinality(Created) + 1

\* connect() resetting the counter when the construction succeeds
connect_ResetsCounter(failed, pend) ==
    IF failed
    THEN LET r == handleReconnect(reconnectAttempts, pend) IN
         [ws |-> ws, readyState |-> readyState,
          reconnectAttempts |-> r.reconnectAttempts, pending |-> r.pending,
          delay |-> r.delay]
    ELSE [ws |-> NextSocket,
          readyState |-> [s \in Sockets |->
                            IF s = NextSocket THEN "CONNECTING" ELSE readyState[s]],
          reconnectAttempts |-> 0, pending |-> pend, delay |-> 0]

\* connect(): new WebSocket(url) and its handlers, or the catch branch;
\* the result is [ws, readyState, reconnectAttempts, pending, delay]
connect(failed, pend) ==
    IF failed
    THEN LET r == handleReconnect(reconnectAttempts, pend) IN
         [ws |-> ws, readyState |-> readyState,
          reconnectAttempts |-> r.reconnectAttempts, pending |-> r.pending,
          delay |-> r.delay]
    ELSE [ws |-> NextSocket,
          readyState |-> [s \in Sockets |->
                            IF s = NextSocket THEN "CONNECTING" ELSE readyState[s]],
          reconnectAttempts |-> reconnectAttempts, pending |-> pend, delay |-> 0]

\* what the bounds ask of a connect(): a transport left to create, a delay left to start
CanConnect(failed, pend) ==
    IF failed
    THEN reconnectAttempts < MAX_RECONNECT_ATTEMPTS => CanDelay(pend)
    ELSE NextSocket <= MaxSockets

\* the external caller's connect()
Connect(failed) ==
    LET r == connect(failed, pending) IN
    /\ CanConnect(failed, pending)
    /\ ws' = r.ws
    /\ readyState' = r.readyState
    /\ reconnectAttempts' = r.reconnectAttempts
    /\ pending' = r.pending
    /\ sent' = <<>>
    /\ UNCHANGED <<sequence, heartbeatInterval, timers, sessionId>>
    /\ UNCHANGED <<orphaned, backoffConnects, greeted>>
    /\ Record("connect", NoFrame, r.delay, failed)

\* disconnect() cancelling the delays in flight
Disconnect_CancelsDelays ==
    /\ timers' = clearHeartbeat(heartbeatInterval, timers)
    /\ readyState' = IF ws # 0 THEN wsClose(readyState, ws) ELSE readyState
    /\ pending' = [h \in Waiters |-> 0]
    /\ orphaned' = [h \in Waiters |-> 0]
    /\ sent' = <<>>
    /\ UNCHANGED <<ws, sequence, heartbeatInterval, sessionId, reconnectAttempts,
                   backoffConnects, greeted>>
    /\ Record("disconnect", NoFrame, 0, FALSE)

\* disconnect() without its clearInterval
Disconnect_KeepsTimer ==
    /\ timers' = timers
    /\ readyState' = IF ws # 0 THEN wsClose(readyState, ws) ELSE readyState
    /\ sent' = <<>>
    /\ UNCHANGED <<ws, sequence, heartbeatInterval, sessionId, reconnectAttempts,
                   pending>>
    /\ orphaned' = pending
    /\ UNCHANGED <<backoffConnects, greeted>>
    /\ Record("disconnect", NoFrame, 0, FALSE)

\* the external caller's disconnect()
Disconnect ==
    /\ timers' = clearHeartbeat(heartbeatInterval, timers)
    /\ readyState' = IF ws # 0 THEN wsClose(readyState, ws) ELSE readyState
    /\ sent' = <<>>
    /\ UNCHANGED <<ws, sequence, heartbeatInterval, sessionId, reconnectAttempts,
                   pending>>
    /\ orphaned' = pending
    /\ UNCHANGED <<backoffConnects, greeted>>
    /\ Record("disconnect", NoFrame, 0, FALSE)

\* ws.on('open'): the handshake of transport s completed
OnOpen(s) ==
    /\ readyState[s] = "CONNECTING"
    /\ readyState' = [readyState EXCEPT ![s] = "OPEN"]
    /\ sent' = <<>>
    /\ UNCHANGED <<ws, sequence, heartbeatInterval, timers, sessionId,
                   reconnectAttempts, pending>>
    /\ UNCHANGED <<orphaned, backoffConnects, greeted>>
    /\ Record("open", NoFrame, 0, FALSE)

\* ws.on('error'): the handler only logs; the transport's close event follows
OnError(s) ==
    /\ readyState[s] \in Alive
    /\ sent' = <<>>
    /\ UNCHANGED <<ws, readyState, sequence, heartbeatInterval, timers, sessionId,
                   reconnectAttempts, pending>>
    /\ UNCHANGED <<orphaned, backoffConnects, greeted>>
    /\ Record("error", NoFrame, 0, FALSE)

\* handlePayload(payload) for a frame that parsed, delivered by transport s
handlePayload(s, f) ==
    /\ sequence' = UpdateSequence(sequence, f.s)
    /\ UNCHANGED <<ws, readyState, reconnectAttempts>>
    /\ CASE f.op = HELLO ->
              LET h == startHeartbeat(heartbeatInterval, timers, f.heartbeat_interval) IN
              /\ heartbeatInterval' = h.heartbeatInterval
              /\ timers' = h.timers
              /\ sent' = identify(ws, readyState)
              /\ UNCHANGED <<sessionId, pending>>
              /\ UNCHANGED <<orphaned, backoffConnects>>
              /\ greeted' = greeted \cup {s}
              /\ Record("message", f, 0, FALSE)
         [] f.op = INVALID_SESSION ->
              LET r == handleInvalidSession(heartbeatInterval, timers, pending) IN
              /\ CanDelay(pending)
              /\ timers' = r.timers
              /\ pending' = r.pending
              /\ sent' = <<>>
              /\ UNCHANGED <<heartbeatInterval, sessionId>>
              /\ UNCHANGED <<orphaned, backoffConnects, greeted>>
              /\ Record("message", f, r.delay, FALSE)
         [] f.op = DISPATCH ->
              /\ sessionId' = handleDispatch(sessionId, f.t, f.session_id)
              /\ sent' = <<>>
              /\ UNCHANGED <<heartbeatInterval, timers, pending>>
              /\ UNCHANGED <<orphaned, backoffConnects, greeted>>
              /\ Record("message", f, 0, FALSE)
         [] OTHER ->
              /\ sent' = <<>>
              /\ UNCHANGED <<heartbeatInterval, timers, sessionId, pending>>
              /\ UNCHANGED <<orphaned, backoffConnects, greeted>>
              /\ Record("message", f, 0, FALSE)

\* a message handler that closes the held transport on RECONNECT
OnMessage_ReconnectCloses(s, f) ==
    /\ readyState[s] \in {"OPEN", "CLOSING"}
    /\ IF f.op = RECONNECT
       THEN /\ sequence' = UpdateSequence(sequence, f.s)
            /\ readyState' = IF ws # 0 THEN wsClose(readyState, ws) ELSE readyState
            /\ sent' = <<>>
            /\ UNCHANGED <<ws, heartbeatInterval, timers, sessionId, reconnectAttempts,
                           pending, orphaned, backoffConnects, greeted>>
            /\ Record("message", f, 0, FALSE)
       ELSE handlePayload(s, f)

\* ws.on('message') with data that JSON.parse accepts
OnMessage(s, f) ==
    /\ readyState[s] \in {"OPEN", "CLOSING"}
    /\ handlePayload(s, f)

\* a message handler that closes the transport on data JSON.parse rejects
OnParseFail_ClosesTransport(s) ==
    /\ readyState[s] \in {"OPEN", "CLOSING"}
    /\ readyState' = wsClose(readyState, s)
    /\ sent' = <<>>
    /\ UNCHANGED <<ws, sequence, heartbeatInterval, timers, sessionId,
                   reconnectAttempts, pending>>
    /\ UNCHANGED <<orphaned, backoffConnects, greeted>>
    /\ Record("parsefail", NoFrame, 0, FALSE)

\* ws.on('message') with data that JSON.parse rejects: logged and dropped
OnParseFail(s) ==
    /\ readyState[s] \in {"OPEN", "CLOSING"}
    /\ sent' = <<>>
    /\ UNCHANGED <<ws, readyState, sequence, heartbeatInterval, timers, sessionId,
                   reconnectAttempts, pending>>
    /\ UNCHANGED <<orphaned, backoffConnects, greeted>>
    /\ Record("parsefail", NoFrame, 0, FALSE)

\* a close handler that skips the reconnect policy after the caller's close()
OnClose_SkipRequested(s) ==
    LET r == IF readyState[s] \in {"CLOSING", "CLOSING_UNOPENED"}
             THEN [reconnectAttempts |-> reconnectAttempts, pending |-> pending,
                   delay |-> 0]
             ELSE handleReconnect(reconnectAttempts, pending) IN
    /\ readyState[s] \in Alive
    /\ reconnectAttempts < MAX_RECONNECT_ATTEMPTS => CanDelay(pending)
    /\ readyState' = [readyState EXCEPT ![s] = "CLOSED"]
    /\ reconnectAttempts' = r.reconnectAttempts
    /\ pending' = r.pending
    /\ sent' = <<>>
    /\ UNCHANGED <<ws, sequence, heartbeatInterval, timers, sessionId>>
    /\ UNCHANGED <<orphaned, backoffConnects>>
    /\ greeted' = greeted \ {s}
    /\ Record("close", NoFrame, r.delay, FALSE)

\* ws.on('close') of transport s: handleReconnect() up to its await
OnClose(s) ==
    LET r == handleReconnect(reconnectAttempts, pending) IN
    /\ readyState[s] \in Alive
    /\ reconnectAttempts < MAX_RECONNECT_ATTEMPTS => CanDelay(pending)
    /\ readyState' = [readyState EXCEPT ![s] = "CLOSED"]
    /\ reconnectAttempts' = r.reconnectAttempts
    /\ pending' = r.pending
    /\ sent' = <<>>
    /\ UNCHANGED <<ws, sequence, heartbeatInterval, timers, sessionId>>
    /\ UNCHANGED <<orphaned, backoffConnects>>
    /\ greeted' = greeted \ {s}
    /\ Record("close", NoFrame, r.delay, FALSE)

\* a tick of interval timer x: sendHeartbeat()
Tick(x) ==
    /\ x \in timers
    /\ sent' = sendHeartbeat(ws, readyState, sequence)
    /\ UNCHANGED <<ws, readyState, sequence, heartbeatInterval, timers, sessionId,
                   reconnectAttempts, pending>>
    /\ UNCHANGED <<orphaned, backoffConnects, greeted>>
    /\ Record("tick", NoFrame, 0, FALSE)

\* a one-shot delay expires: the handler h awaiting it goes on to connect();
\* old: the delay is one that was started before the latest disconnect()
DelayFire(h, old, failed) ==
    LET left == [pending EXCEPT ![h] = @ - 1]
        r    == connect(failed, left)
    IN
    /\ pending[h] > 0
    /\ IF old THEN orphaned[h] > 0 ELSE pending[h] > orphaned[h]
    /\ orphaned' = IF old THEN [orphaned EXCEPT ![h] = @ - 1] ELSE orphaned
    /\ backoffConnects' = IF h = "handleReconnect" THEN backoffConnects + 1
                          ELSE backoffConnects
    /\ UNCHANGED greeted
    /\ CanConnect(failed, left)
    /\ ws' = r.ws
    /\ readyState' = r.readyState
    /\ reconnectAttempts' = r.reconnectAttempts
    /\ pending' = r.pending
    /\ sent' = <<>>
    /\ UNCHANGED <<sequence, heartbeatInterval, timers, sessionId>>
    /\ Record(h, NoFrame, r.delay, failed)

Next ==
    \/ \E failed \in BOOLEAN : Connect(failed)
    \/ Disconnect
    \/ \E s \in Sockets : OnOpen(s)
    \/ \E s \in Sockets : OnError(s)
    \/ \E s \in Sockets, f \in Frames : OnMessage(s, f)
    \/ \E s \in Sockets : OnParseFail(s)
    \/ \E s \in Sockets : OnClose(s)
    \/ \E x \in timers : Tick(x)
    \/ \E h \in Waiters, old \in BOOLEAN, failed \in BOOLEAN : DelayFire(h, old, failed)

Spec == Init /\ [][Next]_vars

\* a server that numbers the frames of each connection with one value of the
\* connection's own, a later connection starting below an earlier one: every
\* transport delivers non-decreasing s
OrderedFrames(s) == {f \in Frames : f.s \in {NULL, MaxSockets - s}}

NextOrdered ==
    \/ \E failed \in BOOLEAN : Connect(failed)
    \/ Disconnect
    \/ \E s \in Sockets : OnOpen(s)
    \/ \E s \in Sockets : OnError(s)
    \/ \E s \in Sockets : \E f \in OrderedFrames(s) : OnMessage(s, f)
    \/ \E s \in Sockets : OnParseFail(s)
    \/ \E s \in Sockets : OnClose(s)
    \/ \E x \in timers : Tick(x)
    \/ \E h \in Waiters, old \in BOOLEAN, failed \in BOOLEAN : DelayFire(h, old, failed)

\* the gateway against such a server
SpecOrdered == Init /\ [][NextOrdered]_vars

TypeOK ==
    /\ ws \in 0..MaxSockets
    /\ readyState \in [Sockets -> Alive \cup {"NONE", "CLOSED"}]
    /\ sequence \in SeqVals
    /\ reconnectAttempts \in 0..MAX_RECONNECT_ATTEMPTS
    /\ pending \in [Waiters -> 0..MaxPending]
    /\ InFlight(pending) <= MaxPending
    /\ orphaned \in [Waiters -> 0..MaxPending]
    /\ \A h \in Waiters : orphaned[h] <= pending[h]
    /\ backoffConnects \in 0..MAX_RECONNECT_ATTEMPTS
    /\ greeted \subseteq {s \in Sockets : readyState[s] \in {"OPEN", "CLOSING"}}

\* ---------------------------------------------------------------- claims

\* the latest step handled a frame of opcode op
Handled(op) == last.kind = "message" /\ last.frame.op = op

\* the latest step ran the reconnect policy: a close event, or a connect() whose
\* new WebSocket() threw
RanReconnectPolicy ==
    \/ last.kind = "close"
    \/ last.kind \in {"connect"} \cup Waiters /\ last.failed

\* the handlers suspended before the latest step, less the one it resumed
Suspended ==
    IF last.kind \in Waiters
    THEN [last.pre.pending EXCEPT ![last.kind] = @ - 1]
    ELSE last.pre.pending

HeldOpen == ws # 0 /\ readyState[ws] = "OPEN"

OneTimer(period) == timers = {[id |-> heartbeatInterval, period |-> period]}

\* C1 as stated: handling HELLO with heartbeat_interval = N leaves exactly one
\* active heartbeat timer, of period N, and sends exactly one IDENTIFY frame with
\* the configured token and intents 513 in that step, in every reachable state.
C1_HelloAlwaysIdentifies ==
    Handled(HELLO) =>
        /\ OneTimer(last.frame.heartbeat_interval)
        /\ Len(sent) = 1
        /\ sent[1].op = 2 /\ sent[1].token = "token" /\ sent[1].intents = 513

\* C1 amended: handling HELLO with heartbeat_interval = N leaves exactly one active
\* heartbeat timer, of period N; in that step it sends exactly one IDENTIFY frame
\* (configured token, intents 513) on the held transport when that transport is
\* open, and sends nothing when it is not.
C1_HelloIdentifiesWhenOpen ==
    Handled(HELLO) =>
        /\ OneTimer(last.frame.heartbeat_interval)
        /\ IF HeldOpen
           THEN /\ Len(sent) = 1
                /\ sent[1].sock = ws
                /\ sent[1].op = 2 /\ sent[1].token = "token" /\ sent[1].intents = 513
           ELSE sent = <<>>

C1_Witness ==
    /\ Handled(HELLO)
    /\ last.frame.heartbeat_interval = 41250
    /\ timers = {[id |-> 1, period |-> 41250]}
    /\ Len(sent) = 1

\* C2: after a decoded frame the stored sequence is the frame's s when that is an
\* integer, whatever the opcode, and is what it was when the frame has no
\* non-null s (s null, or no s field at all).
C2_SequenceFollowsFrames ==
    last.kind = "message" =>
        IF last.frame.s \in 0..MaxSeq
        THEN sequence = last.frame.s
        ELSE ~last.seqChanged

\* C3: the reconnect policy run with the counter at k < 5 sets it to k + 1 and
\* suspends for min(1000 * 2^(k+1), 30000) ms before connect(): 2000, 4000, 8000,
\* 16000, 30000 ms for k = 0..4.
C3_BackoffDelay ==
    RanReconnectPolicy /\ last.pre.reconnectAttempts < 5 =>
        /\ reconnectAttempts = last.pre.reconnectAttempts + 1
        /\ last.delay = <<2000, 4000, 8000, 16000, 30000>>[reconnectAttempts]
        /\ pending["handleReconnect"] = Suspended["handleReconnect"] + 1

C3_Witness ==
    /\ last.kind = "close"
    /\ last.pre.reconnectAttempts = 2
    /\ last.delay = 8000
    /\ reconnectAttempts = 3

\* C4: with the counter at 5, a transport failure (a close event, a failed
\* construction) starts no delay, suspends no handler, creates no transport and
\* leaves the counter at 5; no step takes the counter off 5 again.
C4_AbandonedAtCeiling ==
    /\ RanReconnectPolicy /\ last.pre.reconnectAttempts = 5 =>
          /\ last.delay = 0
          /\ pending = Suspended
          /\ ws = last.pre.ws
          /\ \A s \in Sockets : last.pre.readyState[s] = "NONE" => readyState[s] = "NONE"
    /\ last.pre.reconnectAttempts = 5 => reconnectAttempts = 5

C4_Witness ==
    /\ last.kind = "close"
    /\ last.pre.reconnectAttempts = 5
    /\ reconnectAttempts = 5

\* C5: handling INVALID_SESSION stops the heartbeat timer and suspends for 5000 ms
\* before connect(), whatever the counter (the ceiling 5 included), and leaves the
\* counter alone; when that delay expires connect() runs: it holds a new transport
\* unless the construction throws.
C5_InvalidSessionBypassesCounter ==
    /\ Handled(INVALID_SESSION) =>
          /\ timers = {}
          /\ last.delay = 5000
          /\ pending["handleInvalidSession"] = last.pre.pending["handleInvalidSession"] + 1
          /\ reconnectAttempts = last.pre.reconnectAttempts
    /\ last.kind = "handleInvalidSession" /\ ~last.failed =>
          /\ ws # last.pre.ws
          /\ last.pre.readyState[ws] = "NONE"
          /\ readyState[ws] = "CONNECTING"

C5_Witness ==
    /\ Handled(INVALID_SESSION)
    /\ reconnectAttempts = 5
    /\ last.pre.timers # {}
    /\ pending["handleInvalidSession"] = 1

\* C6: when disconnect() returns no heartbeat timer is active and the held
\* transport is closing or closed; the counter and the sequence are as before.
C6_DisconnectTearsDown ==
    last.kind = "disconnect" =>
        /\ timers = {}
        /\ ws # 0 => readyState[ws] \in {"CLOSING", "CLOSING_UNOPENED", "CLOSED"}
        /\ reconnectAttempts = last.pre.reconnectAttempts
        /\ ~last.seqChanged

C6_Witness ==
    /\ last.kind = "disconnect"
    /\ last.pre.timers # {}
    /\ ws # 0 /\ last.pre.readyState[ws] = "CONNECTING"
    /\ reconnectAttempts > 0
    /\ sequence \in 0..MaxSeq

\* C7: at most one heartbeat timer is active in every reachable state, and it is
\* the one the gateway holds the handle of; after a HELLO exactly one is.
C7_OneHeartbeatTimer ==
    /\ Cardinality(timers) <= 1
    /\ \A x \in timers : x.id = heartbeatInterval
    /\ Handled(HELLO) => Cardinality(timers) = 1

\* a second HELLO, on a later connection, while the first one's timer is active
C7_Witness ==
    /\ Handled(HELLO)
    /\ last.pre.timers # {}
    /\ Cardinality(Created) = 2
    /\ Cardinality(timers) = 1

\* C8: a DISPATCH frame named READY sets sessionId to its session_id and, carrying
\* a sequence number, the stored sequence to its s; a DISPATCH frame of any other
\* name leaves sessionId as it was.
C8_ReadyCapturesSession ==
    Handled(DISPATCH) =>
        IF last.frame.t = "READY"
        THEN /\ sessionId = last.frame.session_id
             /\ last.frame.s # NULL => sequence = last.frame.s
        ELSE sessionId = last.pre.sessionId

C8_Witness ==
    /\ Handled(DISPATCH)
    /\ last.frame.t = "READY"
    /\ last.pre.sessionId = "null"
    /\ sessionId = "abc123"
    /\ last.frame.s = 1 /\ sequence = 1

\* C9: every close event of a transport, the close that follows the caller's
\* disconnect() included, runs the reconnect policy: with the counter below 5 the
\* counter goes up by one and handleReconnect suspends for the backoff delay; when
\* that delay expires connect() holds a new transport unless its construction throws.
C9_CloseAlwaysReconnects ==
    /\ last.kind = "close" /\ last.pre.reconnectAttempts < 5 =>
          /\ reconnectAttempts = last.pre.reconnectAttempts + 1
          /\ last.delay > 0
          /\ pending["handleReconnect"] = last.pre.pending["handleReconnect"] + 1
    /\ last.kind = "handleReconnect" /\ ~last.failed =>
          /\ ws # last.pre.ws
          /\ last.pre.readyState[ws] = "NONE"
          /\ readyState[ws] = "CONNECTING"

\* the close event of the transport the caller's disconnect() closed
C9_Witness ==
    /\ last.kind = "close"
    /\ ws # 0 /\ last.pre.readyState[ws] = "CLOSING" /\ readyState[ws] = "CLOSED"
    /\ last.delay > 0

\* C10: a connect() call of the external caller resets the counter to 0.
C10_ConnectResetsCounter ==
    last.kind = "connect" /\ ~last.failed => reconnectAttempts = 0

\* the transports that are connecting or open
Live == {s \in Sockets : readyState[s] \in {"CONNECTING", "OPEN"}}

\* C11: at most one transport is connecting or open in every reachable state: when
\* connect() holds a new transport the one held before has been closed.
C11_OneLiveTransport == Cardinality(Live) <= 1

\* C12: when the reconnect policy runs with the counter at 5 the session is torn
\* down as by disconnect(): afterwards no heartbeat timer is active and the held
\* transport is neither connecting nor open.
C12_ExhaustionTearsDown ==
    RanReconnectPolicy /\ last.pre.reconnectAttempts = 5 =>
        /\ timers = {}
        /\ ws # 0 => readyState[ws] \notin {"CONNECTING", "OPEN"}

\* C13: data that JSON.parse rejects is dropped: the sequence, the session id, the
\* heartbeat timer, the counter, the transports and the suspended handlers are as
\* before, nothing is sent and no delay is started; the transport that delivered
\* it goes on delivering.
C13_ParseFailureDropped ==
    last.kind = "parsefail" =>
        /\ Fields = last.pre
        /\ ~last.seqChanged
        /\ sent = <<>>
        /\ last.delay = 0
        /\ \E s \in Sockets : readyState[s] \in {"OPEN", "CLOSING"}

C13_Witness ==
    /\ last.kind = "parsefail"
    /\ HeldOpen
    /\ sequence \in 0..MaxSeq
    /\ sessionId = "abc123"
    /\ timers # {}
    /\ reconnectAttempts > 0

\* C14: a heartbeat tick sends exactly one frame {op: 1, d: the stored sequence} on
\* the held transport when that transport is open and nothing otherwise, and
\* changes no field, the timer included; an active timer is stopped only by
\* disconnect(), by a HELLO or by INVALID_SESSION.
C14_TickSendsHeartbeat ==
    /\ last.kind = "tick" =>
          /\ Fields = last.pre
          /\ ~last.seqChanged
          /\ IF HeldOpen
             THEN sent = <<[sock |-> ws, op |-> 1, d |-> sequence, token |-> "",
                            intents |-> 0]>>
             ELSE sent = <<>>
    /\ last.pre.timers \ timers # {} =>
          \/ last.kind = "disconnect"
          \/ Handled(HELLO)
          \/ Handled(INVALID_SESSION)

\* a tick on an open transport with a sequence number stored
C14_Witness ==
    /\ last.kind = "tick"
    /\ Len(sent) = 1
    /\ sent[1].d = 1
    /\ timers # {}

\* a tick while the held transport is closed
C14_WitnessIdle ==
    /\ last.kind = "tick"
    /\ ws # 0 /\ readyState[ws] = "CLOSED"
    /\ sent = <<>>

\* the latest step resumed a handler whose delay was started before a disconnect()
FiredOrphan ==
    /\ last.kind \in Waiters
    /\ orphaned[last.kind] < last.pre.orphaned[last.kind]

\* C15: disconnect() cancels no one-shot delay: the handlers suspended when it is
\* called are still suspended when it returns, and when such a delay expires
\* afterwards connect() runs and holds a new transport (unless its construction
\* throws), although disconnect() has run.
C15_DelayOutlivesDisconnect ==
    /\ last.kind = "disconnect" =>
          /\ pending = last.pre.pending
          /\ orphaned = pending
    /\ FiredOrphan /\ ~last.failed =>
          /\ ws # last.pre.ws
          /\ last.pre.readyState[ws] = "NONE"
          /\ readyState[ws] = "CONNECTING"

\* a backoff delay started before disconnect() expired after it and connected
C15_Witness ==
    /\ FiredOrphan
    /\ last.kind = "handleReconnect"
    /\ ~last.failed
    /\ last.pre.timers = {}
    /\ readyState[ws] = "CONNECTING"

\* the same for the 5000 ms delay of INVALID_SESSION
C15_WitnessInvalidSession ==
    /\ FiredOrphan
    /\ last.kind = "handleInvalidSession"
    /\ ~last.failed
    /\ readyState[ws] = "CONNECTING"

\* C16: once the stored sequence is an integer it stays an integer: no step, a
\* frame whose s is null or absent included, makes it null or empty again.
C16_SequenceStaysSet ==
    [][(sequence \in 0..MaxSeq) => (sequence' \in 0..MaxSeq)]_vars

\* C17: with every connection delivering non-decreasing s (SpecOrdered), the
\* stored sequence number never goes from an integer to a smaller integer.
C17_SequenceNeverDecreases ==
    [][(sequence \in 0..MaxSeq /\ sequence' \in 0..MaxSeq) => (sequence' >= sequence)]_vars

\* C18: handling HEARTBEAT_ACK, or an opcode that is none of HELLO, HEARTBEAT_ACK,
\* INVALID_SESSION and DISPATCH (RECONNECT = 7), changes nothing but the stored
\* sequence: the session id, the heartbeat timer, the counter, the transports and
\* the suspended handlers are as before, nothing is sent and no delay is started;
\* the sequence itself is as before when the frame's s is null.
C18_OtherOpcodesInert ==
    last.kind = "message" /\ last.frame.op \notin {10, 9, 0} =>
        /\ Fields = last.pre
        /\ sent = <<>>
        /\ last.delay = 0
        /\ last.frame.s = NULL => ~last.seqChanged

\* RECONNECT handled in an established session
C18_Witness ==
    /\ Handled(7)
    /\ HeldOpen
    /\ timers # {}
    /\ sessionId = "abc123"
    /\ last.seqChanged

\* C19: the counter stays within 0..5 and no step decreases it; every backoff
\* delay started counts one, so the connect() calls the backoff path has made and
\* the backoff delays in flight add up to the counter: at most 5 such calls in
\* the lifetime of the instance.
C19_CounterBoundedMonotone ==
    /\ reconnectAttempts \in 0..5
    /\ reconnectAttempts >= last.pre.reconnectAttempts
    /\ backoffConnects + pending["handleReconnect"] = reconnectAttempts
    /\ backoffConnects <= 5

\* the fifth backoff connect() made, with a transport open: a later failure
\* episode has no attempt left
C19_Witness ==
    /\ backoffConnects = 5
    /\ reconnectAttempts = 5
    /\ HeldOpen
    /\ last.kind = "handleReconnect"

\* C20: every frame the client transmits goes out on a transport whose HELLO has
\* been handled, the IDENTIFY in the very step that handles it: the first frame on
\* a transport is the IDENTIFY answering its HELLO, and no HEARTBEAT goes out on a
\* transport before its HELLO, on a connection opened by a reconnect included.
C20_HandshakeOrder ==
    \A i \in 1..Len(sent) : sent[i].sock \in greeted

====
